---- MODULE Spec2Model ----
(***************************************************************************)
(* Model of data_checker.py: the three per-column detectors (check_null,   *)
(* check_duplicates, check_outliers), perform_checks and the sheet loop of *)
(* check_file.                                                             *)
(*                                                                         *)
(* A cell is <<>> when missing (NaN/None) and <<v>> when present; v is an  *)
(* integer (for an object column: the code of the text value).  Reals are  *)
(* exact rationals [num, den]; a standard deviation is kept as its square. *)
(***************************************************************************)
EXTENDS Integers, Sequences, FiniteSets

VARIABLES data_dict, outlier_threshold, pc, results, returned

vars == <<data_dict, outlier_threshold, pc, results, returned>>

(* ---------- bounds of the model ---------- *)
MaxRows == 4
MaxVal == 2
MaxSheets == 2
MaxCols == 2

(* ---------- program constant: the [:100] slices ---------- *)
ReportCap == 100

Null == <<>>

Min(a, b) == IF a < b THEN a ELSE b

Abs(a) == IF a < 0 THEN 0 - a ELSE a

NoteNotNumeric == "not numeric, skipped"
NoteNoData == "no data"
NoteZeroStd == "std is 0, no outliers"

(* ---------- pandas primitives used by the detectors ---------- *)

\* variant: len(df.dropna()), the rows without any missing cell
RowCount_DropNa(df) ==
    Cardinality({i \in 1..df.nrows : \A c \in DOMAIN df.columns : df.columns[c].cells[i] # Null})

\* len(df)
RowCount(df) == df.nrows

\* df[column]: the cells of the column tagged with the RangeIndex 0..n-1
Series(col) == [i \in 1..Len(col.cells) |-> [index |-> i - 1, value |-> col.cells[i]]]

\* Series.isna(), elementwise
isna(e) == e.value = Null

\* df[null_mask]: the rows where the column is missing, in row order
NullRows(s) == SelectSeq(s, isna)

\* Series.dropna(): the present rows, in row order, keeping their index
dropna(s) == SelectSeq(s, LAMBDA e : ~isna(e))

\* .index.tolist()
IndexList(s) == [k \in 1..Len(s) |-> s[k].index]

\* variant: the slice [-100:]
Head100_Last(l) == SubSeq(l, IF Len(l) > ReportCap THEN Len(l) - ReportCap + 1 ELSE 1, Len(l))

\* the slice [:100]
Head100(l) == SubSeq(l, 1, Min(Len(l), ReportCap))

\* Series.nunique() of a series without missing values
nunique(s) == Cardinality({s[k].value : k \in DOMAIN s})

\* variant: s[s.duplicated()], keep='first': only the repeats of a value
duplicated_KeepFirst(s) ==
    SelectSeq(s, LAMBDA e : \E k \in DOMAIN s : s[k].value = e.value /\ s[k].index < e.index)

\* s[s.duplicated(keep=False)]: every row whose value occurs more than once
duplicated(s) ==
    LET multi == {v \in {s[k].value : k \in DOMAIN s} :
                     Cardinality({k \in DOMAIN s : s[k].value = v}) > 1}
    IN  SelectSeq(s, LAMBDA e : e.value \in multi)

\* Series.unique(): the distinct values in order of first appearance
unique(s) ==
    LET pos == [k \in 1..Len(s) |-> k]
        first == SelectSeq(pos, LAMBDA k : \A j \in 1..(k - 1) : s[j].value # s[k].value)
    IN  [k \in 1..Len(first) |-> s[first[k]].value[1]]

\* sum of x over the rows lo..hi of a series (split in halves)
RECURSIVE SumOver(_, _, _)
SumOver(s, lo, hi) ==
    IF lo > hi THEN 0
    ELSE IF lo = hi THEN s[lo].value[1]
    ELSE LET mid == (lo + hi) \div 2
         IN  SumOver(s, lo, mid) + SumOver(s, mid + 1, hi)

\* sum of x*x over the rows lo..hi of a series
RECURSIVE SumSqOver(_, _, _)
SumSqOver(s, lo, hi) ==
    IF lo > hi THEN 0
    ELSE IF lo = hi THEN s[lo].value[1] * s[lo].value[1]
    ELSE LET mid == (lo + hi) \div 2
         IN  SumSqOver(s, lo, mid) + SumSqOver(s, mid + 1, hi)

\* Series.mean() of a non-empty series: sum / n
mean(s) == [num |-> SumOver(s, 1, Len(s)), den |-> Len(s)]

\* Series.std(): sample standard deviation (ddof = 1), NaN for one value.
\* Kept as its square: (n*sum(x^2) - sum(x)^2) / (n*(n-1)).
std(s) ==
    LET n == Len(s)
        S == SumOver(s, 1, n)
        Q == SumSqOver(s, 1, n)
    IN  IF n < 2 THEN [nan |-> TRUE, num |-> 0, den |-> 1]
        ELSE [nan |-> FALSE, num |-> n * Q - S * S, den |-> n * (n - 1)]

\* variant: std != 0 (true for NaN)
StdNonZero(sd) == sd.nan \/ sd.num # 0

\* std > 0 (false for NaN)
StdPositive(sd) == ~sd.nan /\ sd.num > 0

\* variant: z >= threshold
ZScoreAtLeast(e, m, sd, threshold) ==
    LET d == Abs(m.den * e.value[1] - m.num)
    IN  IF threshold.num < 0 THEN TRUE
        ELSE d * d * (sd.den \div m.den) * threshold.den * threshold.den
                 >= threshold.num * threshold.num * sd.num * m.den

\* variant: z < threshold
ZScoreBelow(e, m, sd, threshold) ==
    LET d == Abs(m.den * e.value[1] - m.num)
    IN  IF threshold.num < 0 THEN FALSE
        ELSE d * d * (sd.den \div m.den) * threshold.den * threshold.den
                 < threshold.num * threshold.num * sd.num * m.den

\* np.abs((x - mean) / std) > threshold, for x = e.value and std > 0, with
\* mean = S/n and std^2 = V/(n*(n-1)):  |n*x - S| / n > (p/q) * sqrt(V/(n*(n-1))).
\* |z| >= 0 is above every negative threshold; otherwise both sides are
\* squared and the factor n shared by the two denominators is cancelled.
ZScoreAbove(e, m, sd, threshold) ==
    LET d == Abs(m.den * e.value[1] - m.num)
    IN  IF threshold.num < 0 THEN TRUE
        ELSE d * d * (sd.den \div m.den) * threshold.den * threshold.den
                 > threshold.num * threshold.num * sd.num * m.den

\* float(count / total) if total > 0 else 0
Ratio(count, total) == IF total > 0 THEN [num |-> count, den |-> total]
                       ELSE [num |-> 0, den |-> 1]

(* ---------- check_null ---------- *)
check_null_column(df, col) ==
    LET null_rows == NullRows(Series(col))
        null_count == Len(null_rows)
        total_count == RowCount(df)
    IN  [null_count |-> null_count,
         total_count |-> total_count,
         null_ratio |-> Ratio(null_count, total_count),
         null_indices |-> Head100(IndexList(null_rows))]

ColumnNames(df) == {df.columns[c].name : c \in DOMAIN df.columns}

ColumnOf(df, name) == df.columns[CHOOSE c \in DOMAIN df.columns : df.columns[c].name = name]

check_null(df) == [name \in ColumnNames(df) |-> check_null_column(df, ColumnOf(df, name))]

(* ---------- check_duplicates ---------- *)
\* variant: total_count = len(df[column]), missing rows included
check_duplicates_column_AllRows(df, col) ==
    LET non_null_series == dropna(Series(col))
        total_count == Len(Series(col))
        unique_count == nunique(non_null_series)
        duplicate_count == total_count - unique_count
    IN  [total_count |-> total_count,
         unique_count |-> unique_count,
         duplicate_count |-> duplicate_count,
         duplicate_ratio |-> Ratio(duplicate_count, total_count),
         duplicated_values |-> Head100(unique(duplicated(non_null_series)))]

check_duplicates_column(df, col) ==
    LET non_null_series == dropna(Series(col))
        total_count == Len(non_null_series)
        unique_count == nunique(non_null_series)
        duplicate_count == total_count - unique_count
    IN  [total_count |-> total_count,
         unique_count |-> unique_count,
         duplicate_count |-> duplicate_count,
         duplicate_ratio |-> Ratio(duplicate_count, total_count),
         duplicated_values |-> Head100(unique(duplicated(non_null_series)))]

check_duplicates(df) ==
    [name \in ColumnNames(df) |-> check_duplicates_column(df, ColumnOf(df, name))]

\* nunique()/duplicated() hash the values: TypeError on an unhashable cell
DuplicatesRaises(df) ==
    \E c \in DOMAIN df.columns :
        /\ ~df.columns[c].hashable
        /\ Len(dropna(Series(df.columns[c]))) > 0

(* ---------- check_outliers ---------- *)
is_numeric_dtype(col) == col.dtype = "numeric"

\* non_null_series[outlier_mask], outlier_mask = z_scores > threshold
OutlierRows(non_null_series, m, sd, threshold) ==
    SelectSeq(non_null_series, LAMBDA e : ZScoreAbove(e, m, sd, threshold))

check_outliers_column(df, col, threshold) ==
    IF is_numeric_dtype(col)
    THEN LET non_null_series == dropna(Series(col))
         IN  IF Len(non_null_series) > 0
             THEN LET m == mean(non_null_series)
                      sd == std(non_null_series)
                  IN  IF StdPositive(sd)
                      THEN LET outliers == OutlierRows(non_null_series, m, sd, threshold)
                               outlier_count == Len(outliers)
                           IN  [outlier_count |-> outlier_count,
                                total_count |-> RowCount(df),
                                outlier_ratio |-> Ratio(outlier_count, RowCount(df)),
                                outlier_indices |-> Head100(IndexList(outliers)),
                                mean |-> m,
                                std |-> sd,
                                threshold |-> threshold]
                      ELSE [outlier_count |-> 0,
                            total_count |-> RowCount(df),
                            outlier_ratio |-> [num |-> 0, den |-> 1],
                            outlier_indices |-> <<>>,
                            mean |-> m,
                            std |-> [nan |-> FALSE, num |-> 0, den |-> 1],
                            threshold |-> threshold,
                            note |-> NoteZeroStd]
             ELSE [outlier_count |-> 0,
                   total_count |-> 0,
                   outlier_ratio |-> [num |-> 0, den |-> 1],
                   outlier_indices |-> <<>>,
                   note |-> NoteNoData]
    ELSE [note |-> NoteNotNumeric]

\* variant: a non-numeric column is skipped without an entry
check_outliers_NumericOnly(df, threshold) ==
    [name \in {n \in ColumnNames(df) : is_numeric_dtype(ColumnOf(df, n))} |->
        check_outliers_column(df, ColumnOf(df, name), threshold)]

check_outliers(df, threshold) ==
    [name \in ColumnNames(df) |-> check_outliers_column(df, ColumnOf(df, name), threshold)]

(* ---------- perform_checks ---------- *)
perform_checks(df, threshold) ==
    [null_check |-> check_null(df),
     duplicate_check |-> check_duplicates(df),
     outlier_check |-> check_outliers(df, threshold)]

\* an exception of a detector leaves perform_checks uncaught
PerformChecksRaises(df) == DuplicatesRaises(df)

(* ---------- the inputs ---------- *)
BigLen == ReportCap + 1

Cells == {Null} \cup {<<v>> : v \in 0..MaxVal}

SeqsUpTo(S, n) == UNION {[1..k -> S] : k \in 0..n}

NullRun == [i \in 1..BigLen |-> Null]

ConstRun(v) == [i \in 1..BigLen |-> <<v>>]

Ramp == [i \in 1..BigLen |-> <<i - 1>>]

DownRamp == [i \in 1..BigLen |-> <<BigLen - i>>]

Column(name, dtype, hashable, cells) ==
    [name |-> name, dtype |-> dtype, hashable |-> hashable, cells |-> cells]

\* columns of at most MaxRows rows: numeric, text, and object cells that
\* cannot be hashed (lists)
ShortColumns ==
    {Column("c1", "numeric", TRUE, cs) : cs \in SeqsUpTo(Cells, MaxRows)}
    \cup {Column("c1", "object", TRUE, cs) : cs \in SeqsUpTo(Cells, MaxRows)}
    \cup {Column("c1", "object", FALSE, cs) : cs \in SeqsUpTo({Null, <<0>>}, MaxRows)}

\* columns of more than ReportCap rows, built from runs
LongColumns ==
    {Column("c1", "numeric", TRUE, p \o a \o b) :
        p \in SeqsUpTo(Cells, 1), a \in {NullRun, ConstRun(0)},
        b \in {<<>>, NullRun, ConstRun(0), ConstRun(MaxVal)}}
    \cup {Column("c1", "object", TRUE, p \o a \o b) :
        p \in SeqsUpTo(Cells, 1), a \in {NullRun, Ramp, DownRamp},
        b \in {<<>>, Ramp, DownRamp}}

Table(cols) == [nrows |-> Len(cols[1].cells), columns |-> cols]

SheetName(k) == <<"sheet", k>>

Sheet(k, df) == [name |-> SheetName(k), df |-> df]

\* one sheet of one column
ColumnDatasets == {<<Sheet(1, Table(<<col>>))>> : col \in ShortColumns \cup LongColumns}

\* the columns the tables of a workbook are made of, three rows each
SampleCells ==
    <<[dtype |-> "numeric", hashable |-> TRUE, cells |-> <<<<0>>, <<1>>, <<2>>>>],
      [dtype |-> "numeric", hashable |-> TRUE, cells |-> <<<<1>>, Null, <<1>>>>],
      [dtype |-> "object", hashable |-> TRUE, cells |-> <<<<0>>, <<0>>, Null>>],
      [dtype |-> "object", hashable |-> FALSE, cells |-> <<<<0>>, Null, <<1>>>>]>>

ColName(c) == <<"col", c>>

\* a table is a selection of 1..MaxCols of the sample columns, in their order
SampleTables ==
    UNION {{Table([c \in 1..n |-> Column(ColName(c), SampleCells[f[c]].dtype,
                                          SampleCells[f[c]].hashable, SampleCells[f[c]].cells)]) :
               f \in {g \in [1..n -> DOMAIN SampleCells] : \A c \in 1..(n - 1) : g[c] < g[c + 1]}} :
           n \in 1..MaxCols}

WorkbookDatasets ==
    UNION {{[k \in 1..n |-> Sheet(k, f[k])] : f \in [1..n -> SampleTables]} : n \in 1..MaxSheets}

Rat(p, q) == [num |-> p, den |-> q]

Thresholds == {Rat(0 - 1, 1), Rat(0, 1), Rat(1, 2), Rat(1, 1), Rat(3, 2), Rat(3, 1)}

(* ---------- check_file ---------- *)
TypeOK ==
    /\ pc \in {"loop", "done", "failed"}
    /\ Len(results) <= Len(data_dict)
    /\ outlier_threshold \in Thresholds

\* data_dict = load_data(filepath); results = {}
InitWith(datasets) ==
    /\ data_dict \in datasets
    /\ outlier_threshold \in Thresholds
    /\ pc = "loop"
    /\ results = <<>>
    /\ returned = <<>>

Init == InitWith(WorkbookDatasets)

InitColumn == InitWith(ColumnDatasets)

\* one iteration of the loop: results[sheet_name] = perform_checks(df, outlier_threshold)
CheckSheet ==
    /\ pc = "loop"
    /\ Len(results) < Len(data_dict)
    /\ LET sheet == data_dict[Len(results) + 1]
       IN  /\ ~PerformChecksRaises(sheet.df)
           /\ results' = Append(results, [sheet_name |-> sheet.name,
                                          checks |-> perform_checks(sheet.df, outlier_threshold)])
    /\ UNCHANGED <<data_dict, outlier_threshold, pc, returned>>

\* an iteration in which a detector raises: nothing catches it in
\* perform_checks or check_file, the call ends without a report
CheckSheetRaises ==
    /\ pc = "loop"
    /\ Len(results) < Len(data_dict)
    /\ PerformChecksRaises(data_dict[Len(results) + 1].df)
    /\ pc' = "failed"
    /\ results' = <<>>
    /\ UNCHANGED <<data_dict, outlier_threshold, returned>>

\* after the loop: json.dump(results), return results
WriteResults ==
    /\ pc = "loop"
    /\ Len(results) = Len(data_dict)
    /\ returned' = results
    /\ pc' = "done"
    /\ UNCHANGED <<data_dict, outlier_threshold, results>>

Next == CheckSheet \/ CheckSheetRaises \/ WriteResults

Spec == Init /\ [][Next]_vars

SpecColumn == InitColumn /\ [][Next]_vars

(* ====================== properties ====================== *)

\* the (sheet, column) pairs that have results so far
Checked == {<<k, c>> \in (DOMAIN results) \X (1..MaxCols + 1) : c \in DOMAIN data_dict[k].df.columns}

TableOf(kc) == data_dict[kc[1]].df

ColOf(kc) == data_dict[kc[1]].df.columns[kc[2]]

NullOf(kc) == results[kc[1]].checks.null_check[ColOf(kc).name]

DupOf(kc) == results[kc[1]].checks.duplicate_check[ColOf(kc).name]

OutOf(kc) == results[kc[1]].checks.outlier_check[ColOf(kc).name]

\* rows (1-based positions) where the column is missing / present
Missing(col) == {i \in 1..Len(col.cells) : col.cells[i] = Null}

Present(col) == {i \in 1..Len(col.cells) : col.cells[i] # Null}

PresentValues(col) == {col.cells[i][1] : i \in Present(col)}

Occurrences(col, v) == {i \in Present(col) : col.cells[i][1] = v}

\* l lists, 0-based and ascending, the first min(ReportCap, |rows|) members of rows
IsCappedAscending(l, rows) ==
    /\ Len(l) = Min(ReportCap, Cardinality(rows))
    /\ \A j \in 1..(Len(l) - 1) : l[j] < l[j + 1]
    /\ Len(l) > 0 => {l[j] + 1 : j \in DOMAIN l} = {i \in rows : i <= l[Len(l)] + 1}

RatEq(a, b) == a.num * b.den = b.num * a.den

RatLeq(a, b) == a.num * b.den <= b.num * a.den

RatZero == [num |-> 0, den |-> 1]

\* sum of v^2 (sq) or v over the present cells, by value
RECURSIVE Moment(_, _, _)
Moment(col, vs, sq) ==
    IF vs = {} THEN 0
    ELSE LET v == CHOOSE w \in vs : TRUE
         IN  (IF sq THEN v * v ELSE v) * Cardinality(Occurrences(col, v))
                 + Moment(col, vs \ {v}, sq)

\* the z-score of row i compared with t = p/q, from the definition:
\* |x - S/n| / sqrt((Q - S*S/n)/(n-1)) against p/q, cleared of fractions
ZCompare(col, i, t) ==
    LET n == Cardinality(Present(col))
        S == Moment(col, PresentValues(col), FALSE)
        Q == Moment(col, PresentValues(col), TRUE)
        x == col.cells[i][1]
        lhs == (n * x - S) * (n * x - S) * (n - 1) * t.den * t.den
        rhs == t.num * t.num * n * (n * Q - S * S)
    IN  IF t.num < 0 THEN "above"
        ELSE IF lhs > rhs THEN "above"
        ELSE IF lhs = rhs THEN "equal" ELSE "below"

HasSpread(col) == Cardinality(PresentValues(col)) > 1

\* C4: null_count is the number of missing rows, total_count the row count
\* of the table, and null_indices the first min(100, null_count) missing row
\* indices in ascending order.
C4_NullCountsExact ==
    \A kc \in Checked :
        LET col == ColOf(kc)
            r == NullOf(kc)
        IN  /\ r.null_count = Cardinality(Missing(col))
            /\ r.total_count = TableOf(kc).nrows
            /\ r.null_count + Cardinality(Present(col)) = r.total_count
            /\ IsCappedAscending(r.null_indices, Missing(col))

C4_Witness ==
    \E kc \in Checked :
        /\ NullOf(kc).null_count > ReportCap
        /\ Len(NullOf(kc).null_indices) = ReportCap
        /\ Present(ColOf(kc)) # {}

\* C5: check_duplicates counts over the non-missing values only:
\* total_count, unique_count, duplicate_count = total - unique >= 0, zero
\* exactly when the non-missing values are pairwise distinct; the ratio is 0
\* when total_count is 0.
C5_DuplicateCounts ==
    \A kc \in Checked :
        LET col == ColOf(kc)
            r == DupOf(kc)
        IN  /\ r.total_count = Cardinality(Present(col))
            /\ r.unique_count = Cardinality(PresentValues(col))
            /\ r.duplicate_count = r.total_count - r.unique_count
            /\ r.duplicate_count >= 0
            /\ (r.duplicate_count = 0) <=>
                   (\A v \in PresentValues(col) : Cardinality(Occurrences(col, v)) = 1)
            /\ (r.total_count > 0 => RatEq(r.duplicate_ratio,
                                          [num |-> r.duplicate_count, den |-> r.total_count]))
            /\ (r.total_count = 0 => r.duplicate_ratio = RatZero)

C5_Witness ==
    \E kc \in Checked :
        /\ Cardinality(Missing(ColOf(kc))) >= 2
        /\ Cardinality(Present(ColOf(kc))) >= 2
        /\ DupOf(kc).duplicate_count = 0

\* C6: duplicated_values holds each value occurring more than once exactly
\* once, nothing else, in order of first occurrence, cut to the first 100;
\* it is non-empty exactly when duplicate_count > 0.
C6_DuplicatedValues ==
    \A kc \in Checked :
        LET col == ColOf(kc)
            r == DupOf(kc)
            l == r.duplicated_values
            occ == [v \in PresentValues(col) |-> Occurrences(col, v)]
            multi == {v \in PresentValues(col) : Cardinality(occ[v]) > 1}
            firstRow == [v \in multi |-> CHOOSE i \in occ[v] : \A j \in occ[v] : i <= j]
        IN  /\ Len(l) = Min(ReportCap, Cardinality(multi))
            /\ \A j \in DOMAIN l : l[j] \in multi
            /\ \A j \in 1..(Len(l) - 1) : firstRow[l[j]] < firstRow[l[j + 1]]
            /\ Len(l) > 0 =>
                   {l[j] : j \in DOMAIN l} = {w \in multi : firstRow[w] <= firstRow[l[Len(l)]]}
            /\ (Len(l) > 0) <=> (r.duplicate_count > 0)

C6_Witness ==
    \E kc \in Checked :
        /\ Len(DupOf(kc).duplicated_values) = ReportCap
        /\ DupOf(kc).duplicate_count > ReportCap
        /\ DupOf(kc).duplicated_values[1] > DupOf(kc).duplicated_values[2]

\* the checked numeric columns
CheckedNumeric == {kc \in Checked : ColOf(kc).dtype = "numeric"}

\* the rows of a column whose z-score is strictly above t
RowsAbove(col, t) == {i \in Present(col) : ZCompare(col, i, t) = "above"}

\* C3: with non-zero standard deviation, the flagged rows are exactly the
\* non-missing rows with |x - mean| / std > threshold (strictly), mean and
\* sample std over the non-missing values; outlier_count counts them and
\* outlier_indices lists their table row indices, ascending, first 100.
C3_OutliersExact ==
    \A kc \in CheckedNumeric :
        LET col == ColOf(kc)
            r == OutOf(kc)
            above == RowsAbove(col, outlier_threshold)
        IN  HasSpread(col) =>
               /\ r.outlier_count = Cardinality(above)
               /\ IsCappedAscending(r.outlier_indices, above)
               /\ RatEq(r.mean, [num |-> Moment(col, PresentValues(col), FALSE),
                                 den |-> Cardinality(Present(col))])
               /\ ~r.std.nan
               /\ LET n == Cardinality(Present(col))
                      S == Moment(col, PresentValues(col), FALSE)
                      Q == Moment(col, PresentValues(col), TRUE)
                  IN  r.std.num = n * Q - S * S /\ r.std.den = n * (n - 1)

C3_Witness ==
    \E kc \in CheckedNumeric :
        LET col == ColOf(kc)
        IN  /\ HasSpread(col)
            /\ \E i \in Present(col) :
                  /\ ZCompare(col, i, outlier_threshold) = "equal"
                  /\ \E j \in Missing(col) : j < i
            /\ OutOf(kc).outlier_count > 0
            /\ \A j \in DOMAIN OutOf(kc).outlier_indices :
                  ZCompare(col, OutOf(kc).outlier_indices[j] + 1, outlier_threshold) = "above"

\* C7: for a numeric column with a non-missing value, total_count of the
\* outlier result is the row count of the table (missing rows included) and
\* outlier_ratio = outlier_count / total_count; with no non-missing value
\* the result is the all-zero "no data" result.
C7_OutlierTotals ==
    \A kc \in CheckedNumeric :
        LET col == ColOf(kc)
            r == OutOf(kc)
        IN  IF Present(col) # {}
            THEN /\ r.total_count = TableOf(kc).nrows
                 /\ RatEq(r.outlier_ratio, [num |-> r.outlier_count, den |-> r.total_count])
            ELSE r = [outlier_count |-> 0, total_count |-> 0, outlier_ratio |-> RatZero,
                      outlier_indices |-> <<>>, note |-> NoteNoData]

C7_Witness ==
    \E kc \in CheckedNumeric :
        /\ Missing(ColOf(kc)) # {}
        /\ OutOf(kc).outlier_count > 0
        /\ OutOf(kc).total_count > DupOf(kc).total_count

\* the outlier rows check_outliers selects for a column under threshold t
FlaggedUnder(col, t) ==
    LET s == dropna(Series(col))
        rows == OutlierRows(s, mean(s), std(s), t)
    IN  {rows[k].index : k \in DOMAIN rows}

\* C8: a threshold at least as large never reports a larger outlier_count,
\* and flags no row that the smaller threshold does not flag.
C8_ThresholdMonotone ==
    \A kc \in CheckedNumeric :
        LET col == ColOf(kc)
            r == OutOf(kc)
            flagged == FlaggedUnder(col, outlier_threshold)
        IN  HasSpread(col) =>
               \A t \in Thresholds :
                  RatLeq(outlier_threshold, t) =>
                     /\ check_outliers_column(TableOf(kc), col, t).outlier_count <= r.outlier_count
                     /\ FlaggedUnder(col, t) \subseteq flagged

C8_Witness ==
    \E kc \in CheckedNumeric :
        /\ HasSpread(ColOf(kc))
        /\ OutOf(kc).outlier_count > 0
        /\ \E t \in Thresholds :
              /\ RatLeq(outlier_threshold, t)
              /\ check_outliers_column(TableOf(kc), ColOf(kc), t).outlier_count
                     < OutOf(kc).outlier_count

CheckKeys == {"null_check", "duplicate_check", "outlier_check"}

\* the report of a finished run: one entry per sheet in dataset order, the
\* three maps, one result per column, a bare note for a non-numeric column
ReportShape ==
    pc = "done" =>
       /\ Len(returned) = Len(data_dict)
       /\ \A k \in DOMAIN returned :
             LET df == data_dict[k].df
                 e == returned[k]
             IN  /\ e.sheet_name = data_dict[k].name
                 /\ DOMAIN e.checks = CheckKeys
                 /\ DOMAIN e.checks.null_check = ColumnNames(df)
                 /\ DOMAIN e.checks.duplicate_check = ColumnNames(df)
                 /\ DOMAIN e.checks.outlier_check = ColumnNames(df)
                 /\ \A c \in DOMAIN df.columns :
                       df.columns[c].dtype # "numeric" =>
                          /\ DOMAIN e.checks.outlier_check[df.columns[c].name] = {"note"}
                          /\ e.checks.outlier_check[df.columns[c].name].note = NoteNotNumeric

\* C10: after a successful run the report has exactly one entry per sheet,
\* in dataset order, each with exactly the three check maps holding exactly
\* one result per column (a bare note for a non-numeric column), and the
\* input tables are left unchanged.
C10_ReportComplete == [](ReportShape) /\ [][data_dict' = data_dict]_vars

C10_Witness ==
    /\ pc = "done"
    /\ Len(returned) >= 2
    /\ \E k \in DOMAIN returned :
          /\ Len(data_dict[k].df.columns) >= 2
          /\ \E c \in DOMAIN data_dict[k].df.columns : data_dict[k].df.columns[c].dtype # "numeric"
          /\ \E c \in DOMAIN data_dict[k].df.columns : data_dict[k].df.columns[c].dtype = "numeric"

\* C1: a detector failure on one column does not prevent the other checks:
\* the run is never cut short, and once the loop has ended every sheet has
\* its entry in the report.
C1_FailureIsolated ==
    /\ pc # "failed"
    /\ pc = "done" => Len(returned) = Len(data_dict)

\* C2: with a non-positive threshold the run ends in an error before any
\* column is scanned: no sheet gets a result and the run does not finish.
C2_InvalidThresholdFailsFast ==
    outlier_threshold.num <= 0 => (results = <<>> /\ returned = <<>> /\ pc # "done")

====
